---- MODULE Spec2Model ----
(***************************************************************************)
(* Model of Psi4Harness (src/qcengine/programs/psi4.py): version           *)
(* resolution, the version gate, protocol selection, dispatch to the       *)
(* engine, error classification and result normalisation of compute().     *)
(*                                                                         *)
(* A compute() call is two steps: everything up to the point where the     *)
(* engine is invoked (ComputeUntagged, ComputeUnsupported,                 *)
(* ComputeDispatch), and everything from the engine's answer to the        *)
(* return or raise (ExecuteFailed, ExecuteSucceeded, RunQcschemaReturned,  *)
(* RunQcschemaRaised).  The engine's answer is the environment's choice.   *)
(*                                                                         *)
(* Python None is the string "None".  A failure message is the set of the  *)
(* markers it contains (Python `marker in error_message`).  Memory is in   *)
(* units of 0.0001 GB.  The qcvars merge of lines 139-149 and the          *)
(* input_data["memory"] byte count of line 121 (popped again at line 168)  *)
(* are read by no later step and are left out, as is the discovery of the  *)
(* executable by found().                                                  *)
(***************************************************************************)
EXTENDS Integers, Sequences, FiniteSets

VARIABLES
    installed,      \* version the installed psi4 executable reports
    version_cache,  \* Psi4Harness.version_cache[which("psi4")], or NotCached
    input_model,    \* the caller's AtomicInput object (shared with the caller)
    caller_model,   \* the AtomicInput as the caller built it (history)
    config,         \* the TaskConfig of the current call
    pc,             \* "idle", "running", "returned", "raised"
    calls,          \* compute() calls started so far
    scratch,        \* scratch directories that exist on disk
    call,           \* locals of the current call: tmpdir, protocol, old_basis, ...
    default_path,   \* psi4.core.IOManager.shared_object() default path
    raised,         \* the exception the call ended with
    result          \* the AtomicResult the call returned

vars == <<installed, version_cache, input_model, caller_model, config, pc, calls,
          scratch, call, default_path, raised, result>>

\* Number of successive compute() calls on the same request object.
MaxCalls == 2

(***************************************************************************)
(* Versions: parse_version() ordering (PEP 440) on release, pre-release    *)
(* phase and number, and development number.                               *)
(***************************************************************************)
Ver(rel, pre, pren, hasdev, dev, text) ==
    [release |-> rel, pre |-> pre, pren |-> pren, hasdev |-> hasdev, dev |-> dev,
     text |-> text]

V1_1          == Ver(<<1, 1>>, "", 0, FALSE, 0, "1.1")
V1_2rc1       == Ver(<<1, 2>>, "rc", 1, FALSE, 0, "1.2rc1")
V1_2          == Ver(<<1, 2>>, "", 0, FALSE, 0, "1.2")
V1_3_2        == Ver(<<1, 3, 2>>, "", 0, FALSE, 0, "1.3.2")
V1_4a2_dev159 == Ver(<<1, 4>>, "a", 2, TRUE, 159, "1.4a2.dev159")
V1_4a2_dev160 == Ver(<<1, 4>>, "a", 2, TRUE, 160, "1.4a2.dev160")
V1_4a2_dev200 == Ver(<<1, 4>>, "a", 2, TRUE, 200, "1.4a2.dev200")
V1_4          == Ver(<<1, 4>>, "", 0, FALSE, 0, "1.4")
VUndef        == Ver(<<1, 4>>, "a", 2, TRUE, 200, "1.4a2.dev200+undef")

Versions == {V1_1, V1_2rc1, V1_2, V1_3_2, V1_4a2_dev159, V1_4a2_dev160, V1_4a2_dev200,
             V1_4, VUndef}

NotCached == Ver(<<>>, "", 0, FALSE, 0, "")

Pad(s, i) == IF i <= Len(s) THEN s[i] ELSE 0

RECURSIVE ReleaseCmp(_, _, _)
\* -1, 0, 1: comparison of two release tuples, shorter one padded with zeros
ReleaseCmp(a, b, i) ==
    IF i > Len(a) /\ i > Len(b) THEN 0
    ELSE IF Pad(a, i) < Pad(b, i) THEN -1
    ELSE IF Pad(a, i) > Pad(b, i) THEN 1
    ELSE ReleaseCmp(a, b, i + 1)

\* a development release without a pre-release tag sorts before every
\* pre-release; a < b < rc < final otherwise
PhaseRank(v) ==
    IF v.pre = "" THEN (IF v.hasdev THEN -1 ELSE 3)
    ELSE IF v.pre = "a" THEN 0
    ELSE IF v.pre = "b" THEN 1
    ELSE 2

VersionLessLexical(v, w) ==
    \* bug variant: compares the release only, dropping pre and dev segments
    ReleaseCmp(v.release, w.release, 1) < 0

VersionLess(v, w) ==
    LET c == ReleaseCmp(v.release, w.release, 1) IN
    IF c # 0 THEN c < 0
    ELSE IF PhaseRank(v) # PhaseRank(w) THEN PhaseRank(v) < PhaseRank(w)
    ELSE IF v.pren # w.pren THEN v.pren < w.pren
    ELSE IF v.hasdev # w.hasdev THEN v.hasdev
    ELSE v.hasdev /\ v.dev < w.dev

MinVersion    == Ver(<<1, 2>>, "", 0, FALSE, 0, "1.2")
ModernVersion == Ver(<<1, 4>>, "a", 2, TRUE, 160, "1.4a2.dev160")

IsUntagged(v) == v.text = "1.4a2.dev200+undef"

(***************************************************************************)
(* Requests and task configurations.                                       *)
(***************************************************************************)
NoKeywords == [k \in {} |-> ""]
Keywords   == {NoKeywords,
               [k \in {"reference"} |-> "rhf"],
               [k \in {"REFERENCE"} |-> "rohf"]}

Lower(k) == IF k = "REFERENCE" THEN "reference" ELSE k

BasisValues == {"None", "", "sto-3g"}

Requests == [basis : BasisValues, keywords : Keywords,
             multiplicity : {1, 2}, psiapi : BOOLEAN]

Configs == {[memory |-> 20000, ncores |-> 1],
            [memory |-> 12346, ncores |-> 2],
            [memory |-> 12344, ncores |-> 2]}

(***************************************************************************)
(* Failure messages and raw engine output.                                 *)
(***************************************************************************)
Markers == {"PSIO Error", "scratch directory", "SIGSEV", "SIGSEGV",
            "segmentation fault", "TypeError: set_global_option",
            "RHF reference is only for singlets"}

\* the markers the failure texts of Spec are built from; SpecClassify uses all
StorageMarkers == {"PSIO Error", "scratch directory", "SIGSEGV"}

Messages(markers) == SUBSET markers

ErrorTypes == {"ValidationError", "RuntimeError"}

NoError == [has_message |-> TRUE, error_type |-> "", error_message |-> {}]

\* error payloads: a mapping with error_message and error_type, or an object
\* without an "error_message" entry
Errors(markers) ==
    [has_message : {TRUE}, error_type : ErrorTypes, error_message : Messages(markers)]
    \cup [has_message : {FALSE}, error_type : {""}, error_message : Messages(markers)]

RawProvenance == {[memory |-> 0, nthreads |-> 8]}

RawOutputs(markers) ==
    [success : {TRUE}, error : {NoError}, provenance : RawProvenance]
    \cup [success : {FALSE}, error : Errors(markers), provenance : RawProvenance]

Paths == {"psi_default", "psi_run"}

NoCall   == [tmpdir |-> 0, protocol |-> "none", old_basis |-> "None",
             argv |-> <<>>, sent_keywords |-> NoKeywords, sent_basis |-> "None",
             probes |-> 0, executes |-> 0, orig_scr |-> ""]
NoRaise  == [kind |-> "none", stage |-> "", message |-> {}, error_type |-> ""]
NoResult == [basis |-> "None", memory |-> 0, nthreads |-> 0, schema_name |-> ""]
NoConfig == [memory |-> 0, ncores |-> 0]

Init ==
    /\ installed \in Versions
    /\ version_cache = NotCached
    /\ input_model \in Requests
    /\ caller_model = input_model
    /\ config = NoConfig
    /\ pc = "idle"
    /\ calls = 0
    /\ scratch = {}
    /\ call = NoCall
    /\ default_path = "psi_default"
    /\ raised = NoRaise
    /\ result = NoResult

(***************************************************************************)
(* Helpers of compute().                                                   *)
(***************************************************************************)
\* get_version: the cache entry after the call (filled from the executable's
\* --version output on a miss)
get_version(cache, inst) == IF cache = NotCached THEN inst ELSE cache

\* popen([which_prog, "--version"]) runs of one get_version call
VersionProbes(cache) == IF cache = NotCached THEN 1 ELSE 0

\* old_basis or ""
OrEmpty(basis) == IF basis = "None" THEN "" ELSE basis

CaselessKeys(kw) == {Lower(k) : k \in DOMAIN kw}

SetReference(kw) ==
    [k \in DOMAIN kw \cup {"reference"} |-> IF k = "reference" THEN "uhf" ELSE kw[k]]

\* the keywords mapping after lines 111-113
InjectReference(kw, multiplicity) ==
    IF multiplicity # 1 /\ "reference" \notin CaselessKeys(kw)
    THEN SetReference(kw)
    ELSE kw

SelectProtocolEmbeddedFirst(pversion, psiapi) ==
    \* bug variant: extras consulted before the version threshold
    IF psiapi THEN "embedded"
    ELSE IF VersionLess(pversion, ModernVersion) THEN "legacy"
    ELSE "modern"

SelectProtocol(pversion, psiapi) ==
    IF VersionLess(pversion, ModernVersion) THEN "legacy"
    ELSE IF psiapi THEN "embedded"
    ELSE "modern"

RunCmd(protocol, tmpdir, cfg) ==
    IF protocol = "legacy"
    THEN <<"psi4", "--scratch", tmpdir, "--json", "data.json">>
    ELSE IF protocol = "modern"
    THEN <<"psi4", "--scratch", tmpdir, "--nthread", cfg.ncores,
           "--memory", [GB |-> cfg.memory], "--qcschema", "data.msgpack">>
    ELSE <<>>

\* temporary_directory.__exit__: the directory is removed
temporary_directory_exit(dirs, tmpdir) == dirs \ {tmpdir}

ScratchAfterWithLeaks(dirs, tmpdir) ==
    \* bug variant: directory made without the with block
    dirs

\* the directories left when control leaves the with block of line 109,
\* by falling through or by an exception
ScratchAfterWith(dirs, tmpdir) == temporary_directory_exit(dirs, tmpdir)

Contains(message, marker) == marker \in message

ClassifyInputFirst(error_message, error_type) ==
    \* bug variant: the option-validation test moved to the front
    IF Contains(error_message, "TypeError: set_global_option")
       \/ error_type = "ValidationError"
    THEN "InputError"
    ELSE IF Contains(error_message, "PSIO Error")
    THEN (IF Contains(error_message, "scratch directory")
          THEN "ResourceError" ELSE "RandomError")
    ELSE IF Contains(error_message, "SIGSEV") \/ Contains(error_message, "SIGSEGV")
            \/ Contains(error_message, "segmentation fault")
    THEN "RandomError"
    ELSE IF Contains(error_message, "RHF reference is only for singlets")
    THEN "InputError"
    ELSE "UnknownError"

ClassifyMissesSigsev(error_message, error_type) ==
    \* bug variant: the SIGSEV spelling is not tested
    IF Contains(error_message, "PSIO Error")
    THEN (IF Contains(error_message, "scratch directory")
          THEN "ResourceError" ELSE "RandomError")
    ELSE IF Contains(error_message, "SIGSEGV")
            \/ Contains(error_message, "segmentation fault")
    THEN "RandomError"
    ELSE IF Contains(error_message, "TypeError: set_global_option")
            \/ error_type = "ValidationError"
    THEN "InputError"
    ELSE IF Contains(error_message, "RHF reference is only for singlets")
    THEN "InputError"
    ELSE "UnknownError"

\* lines 219-233
Classify(error_message, error_type) ==
    IF Contains(error_message, "PSIO Error")
    THEN (IF Contains(error_message, "scratch directory")
          THEN "ResourceError" ELSE "RandomError")
    ELSE IF Contains(error_message, "SIGSEV") \/ Contains(error_message, "SIGSEGV")
            \/ Contains(error_message, "segmentation fault")
    THEN "RandomError"
    ELSE IF Contains(error_message, "TypeError: set_global_option")
            \/ error_type = "ValidationError"
    THEN "InputError"
    ELSE IF Contains(error_message, "RHF reference is only for singlets")
    THEN "InputError"
    ELSE "UnknownError"

\* round(memory, 3) in units of 0.0001: the nearest multiple of 10 (Configs
\* holds no exact half, which Python decides by the float's binary value)
Round3(m) ==
    LET q == m \div 10
        r == m % 10
    IN IF r < 5 THEN 10 * q
       ELSE IF r > 5 THEN 10 * (q + 1)
       ELSE IF q % 2 = 0 THEN 10 * q ELSE 10 * (q + 1)

NormalizeKeepsRaw(raw, protocol, old_basis, cfg) ==
    \* bug variant: provenance of the raw output kept
    [basis |-> old_basis, memory |-> raw.provenance.memory,
     nthreads |-> raw.provenance.nthreads, schema_name |-> "qcschema_output"]

\* lines 166-170 and 235-245: the AtomicResult built from the output data
Normalize(raw, protocol, old_basis, cfg) ==
    [basis |-> old_basis, memory |-> Round3(cfg.memory), nthreads |-> cfg.ncores,
     schema_name |-> "qcschema_output"]

Raise(kind, stage, message, error_type) ==
    [kind |-> kind, stage |-> stage, message |-> message, error_type |-> error_type]

(***************************************************************************)
(* compute(), up to the invocation of the engine.                          *)
(***************************************************************************)
CanCall == pc \in {"idle", "returned", "raised"} /\ calls < MaxCalls

\* lines 90-91 with get_version lines 79-82: an untagged build
ComputeUntagged(cfg) ==
    /\ CanCall
    /\ IsUntagged(get_version(version_cache, installed))
    /\ version_cache' = get_version(version_cache, installed)
    /\ config' = cfg
    /\ calls' = calls + 1
    /\ call' = [NoCall EXCEPT !.probes = VersionProbes(version_cache)]
    /\ raised' = Raise("TypeError", "resolve", {}, "")
    /\ result' = NoResult
    /\ pc' = "raised"
    /\ UNCHANGED <<installed, input_model, caller_model, scratch, default_path>>

\* lines 90-94: version below 1.2
ComputeUnsupported(cfg) ==
    /\ CanCall
    /\ ~IsUntagged(get_version(version_cache, installed))
    /\ VersionLess(get_version(version_cache, installed), MinVersion)
    /\ version_cache' = get_version(version_cache, installed)
    /\ config' = cfg
    /\ calls' = calls + 1
    /\ call' = [NoCall EXCEPT !.probes = VersionProbes(version_cache)]
    /\ raised' = Raise("ResourceError", "gate", {}, "")
    /\ result' = NoResult
    /\ pc' = "raised"
    /\ UNCHANGED <<installed, input_model, caller_model, scratch, default_path>>

\* lines 90-134 and 172-200, to the call of execute() or run_qcschema()
ComputeDispatch(cfg) ==
    LET pversion == get_version(version_cache, installed)
        protocol == SelectProtocol(pversion, input_model.psiapi)
        tmpdir   == calls + 1
        keywords == InjectReference(input_model.keywords, input_model.multiplicity)
    IN
    /\ CanCall
    /\ ~IsUntagged(pversion)
    /\ ~VersionLess(pversion, MinVersion)
    /\ version_cache' = pversion
    /\ config' = cfg
    /\ calls' = calls + 1
    /\ input_model' = [input_model EXCEPT !.basis = OrEmpty(input_model.basis),
                                          !.keywords = keywords]
    /\ scratch' = scratch \cup {tmpdir}
    /\ call' = [tmpdir |-> tmpdir, protocol |-> protocol,
                old_basis |-> input_model.basis,
                argv |-> RunCmd(protocol, tmpdir, cfg),
                sent_keywords |-> keywords,
                sent_basis |-> OrEmpty(input_model.basis),
                probes |-> VersionProbes(version_cache),
                executes |-> IF protocol = "embedded" THEN 0 ELSE 1,
                orig_scr |-> IF protocol = "embedded" THEN default_path ELSE ""]
    /\ raised' = NoRaise
    /\ result' = NoResult
    /\ pc' = "running"
    /\ UNCHANGED <<installed, caller_model, default_path>>

(***************************************************************************)
(* compute(), from the engine's answer to the return or raise.             *)
(***************************************************************************)
\* execute() reports a failed run: lines 162-164 / 212-214, then 217-233
ExecuteFailed(stderr) ==
    /\ pc = "running"
    /\ call.protocol \in {"legacy", "modern"}
    /\ scratch' = ScratchAfterWith(scratch, call.tmpdir)
    /\ raised' = Raise(Classify(stderr, "execution_error"), "classify", stderr,
                       "execution_error")
    /\ pc' = "raised"
    /\ UNCHANGED <<installed, version_cache, input_model, caller_model, config,
                   calls, call, default_path, result>>

\* the outcome of lines 137-160 / 201-211 and 217-245 for output data `raw`
Finish(raw) ==
    IF raw.success
    THEN /\ result' = Normalize(raw, call.protocol, call.old_basis, config)
         /\ raised' = NoRaise
         /\ pc' = "returned"
    ELSE IF raw.error.has_message
    THEN /\ raised' = Raise(Classify(raw.error.error_message, raw.error.error_type),
                            "classify", raw.error.error_message, raw.error.error_type)
         /\ pc' = "raised"
         /\ UNCHANGED result
    ELSE IF call.protocol = "legacy"
    THEN /\ raised' = Raise(Classify(raw.error.error_message, "internal_error"),
                            "classify", raw.error.error_message, "internal_error")
         /\ pc' = "raised"
         /\ UNCHANGED result
    ELSE \* line 208: output_data["error"]["error_message"] fails
         /\ raised' = Raise("KeyError", "dispatch", {}, "")
         /\ pc' = "raised"
         /\ UNCHANGED result

\* execute() reports a finished run whose output file holds `raw`
ExecuteSucceeded(raw) ==
    /\ pc = "running"
    /\ call.protocol \in {"legacy", "modern"}
    /\ scratch' = ScratchAfterWith(scratch, call.tmpdir)
    /\ Finish(raw)
    /\ UNCHANGED <<installed, version_cache, input_model, caller_model, config,
                   calls, call, default_path>>

\* lines 175-184: run_qcschema returns `raw`, having left the engine's default
\* path at `path`
RunQcschemaReturned(raw, path) ==
    /\ pc = "running"
    /\ call.protocol = "embedded"
    /\ default_path' = call.orig_scr
    /\ scratch' = ScratchAfterWith(scratch, call.tmpdir)
    /\ Finish(raw)
    /\ UNCHANGED <<installed, version_cache, input_model, caller_model, config,
                   calls, call>>

\* line 181: run_qcschema raises, having left the engine's default path at `path`
RunQcschemaRaised(path) ==
    /\ pc = "running"
    /\ call.protocol = "embedded"
    /\ default_path' = path
    /\ scratch' = ScratchAfterWith(scratch, call.tmpdir)
    /\ raised' = Raise("EngineException", "dispatch", {}, "")
    /\ pc' = "raised"
    /\ UNCHANGED <<installed, version_cache, input_model, caller_model, config,
                   calls, call, result>>

Compute ==
    \/ \E cfg \in Configs : ComputeUntagged(cfg)
    \/ \E cfg \in Configs : ComputeUnsupported(cfg)
    \/ \E cfg \in Configs : ComputeDispatch(cfg)

Next ==
    \/ Compute
    \/ \E stderr \in Messages(StorageMarkers) : ExecuteFailed(stderr)
    \/ \E raw \in RawOutputs(StorageMarkers) : ExecuteSucceeded(raw)
    \/ \E raw \in RawOutputs(StorageMarkers), path \in Paths :
          RunQcschemaReturned(raw, path)
    \/ \E path \in Paths : RunQcschemaRaised(path)

Spec == Init /\ [][Next]_vars

(***************************************************************************)
(* The same program with failure texts over every marker, for one request  *)
(* per protocol.                                                           *)
(***************************************************************************)
ClassifyRequests == [basis : {"sto-3g"}, keywords : {NoKeywords},
                     multiplicity : {1}, psiapi : BOOLEAN]

InitClassify ==
    /\ Init
    /\ installed \in {V1_1, V1_2, V1_4, VUndef}
    /\ input_model \in ClassifyRequests

NextClassify ==
    \/ Compute
    \/ \E stderr \in Messages(Markers) : ExecuteFailed(stderr)
    \/ \E raw \in RawOutputs(Markers) : ExecuteSucceeded(raw)
    \/ \E raw \in RawOutputs(Markers), path \in Paths :
          RunQcschemaReturned(raw, path)
    \/ \E path \in Paths : RunQcschemaRaised(path)

SpecClassify == InitClassify /\ [][NextClassify]_vars

(***************************************************************************)
(* Properties.                                                             *)
(***************************************************************************)
Ended      == pc \in {"returned", "raised"}
Classified == pc = "raised" /\ raised.stage = "classify"
Dispatched == call.protocol # "none"

HasStorage(m) == "PSIO Error" \in m
HasScratch(m) == "scratch directory" \in m
HasSignal(m)  == {"SIGSEV", "SIGSEGV", "segmentation fault"} \cap m # {}

\* the ordered table of (predicate, kind) pairs of the error taxonomy
RuleTable(m, t) ==
    << [hit  |-> HasStorage(m) /\ HasScratch(m), kind |-> "ResourceError"],
       [hit  |-> HasStorage(m) \/ HasSignal(m), kind |-> "RandomError"],
       [hit  |-> \/ "TypeError: set_global_option" \in m
                 \/ t = "ValidationError"
                 \/ "RHF reference is only for singlets" \in m,
        kind |-> "InputError"],
       [hit  |-> TRUE, kind |-> "UnknownError"] >>

FirstMatch(table) ==
    table[CHOOSE i \in 1..Len(table) :
            table[i].hit /\ \A j \in 1..(i - 1) : ~table[j].hit].kind

\* C1: a failure that reaches the error dispatch raises the kind of the first
\* matching row of the ordered table ResourceError (storage marker with a
\* scratch mention), RandomError (storage marker or fatal signal), InputError
\* (option validation, ValidationError type, RHF-singlet text), UnknownError.
ClassificationFollowsTable ==
    Classified => raised.kind = FirstMatch(RuleTable(raised.message, raised.error_type))

StorageWithoutScratchIsRandom ==
    /\ Classified
    /\ HasStorage(raised.message) /\ ~HasScratch(raised.message)
    /\ "TypeError: set_global_option" \in raised.message
    /\ raised.kind = "RandomError"

\* C2 as stated: a message with a fatal-signal marker is always classified
\* RandomError, whatever else it contains.
SignalAlwaysRandom ==
    (Classified /\ HasSignal(raised.message)) => raised.kind = "RandomError"

\* C2 amended: a message with a fatal-signal marker is classified RandomError
\* unless it also holds the storage marker together with a scratch-directory
\* mention, and then it is classified ResourceError.
SignalRandomUnlessScratchStorage ==
    (Classified /\ HasSignal(raised.message)) =>
        raised.kind = IF HasStorage(raised.message) /\ HasScratch(raised.message)
                      THEN "ResourceError" ELSE "RandomError"

SignalWithScratchStorage ==
    /\ Classified
    /\ HasSignal(raised.message)
    /\ HasStorage(raised.message) /\ HasScratch(raised.message)
    /\ raised.kind = "ResourceError"

\* C3: for a request built with an empty or null basis, every returned result
\* carries that original basis, on the first call and on the one after it.
EmptyBasisRestoredEveryCall ==
    (pc = "returned" /\ caller_model.basis \in {"None", ""}) =>
        result.basis = caller_model.basis

\* C4: for a request built with multiplicity other than 1 and no reference
\* keyword in any letter case, the request handed to the engine has
\* reference = "uhf", and once the call has ended the caller's keyword mapping
\* is what the caller built.
ReferenceInjectedCallerUntouched ==
    (Dispatched /\ caller_model.multiplicity # 1
        /\ "reference" \notin CaselessKeys(caller_model.keywords)) =>
        /\ "reference" \in DOMAIN call.sent_keywords
        /\ call.sent_keywords["reference"] = "uhf"
        /\ Ended => input_model.keywords = caller_model.keywords

Taxonomy == {"ResourceError", "RandomError", "InputError", "UnknownError"}

\* C5: a call that reached the engine and did not return a result ends with a
\* classified error of the taxonomy: failed runs, failure payloads of any shape
\* and exceptions of the embedded call all go through the error dispatch.
EveryFailureClassified ==
    (pc = "raised" /\ Dispatched) =>
        raised.stage = "classify" /\ raised.kind \in Taxonomy

\* C6: when a call has ended, by a return, a classified error or a fault
\* inside the dispatch, no scratch directory exists; the call's directory
\* exists only while the engine runs.
ScratchReleasedOnEveryExit ==
    /\ pc # "running" => scratch = {}
    /\ pc = "running" => scratch = {call.tmpdir}

ScratchReleasedAfterFault ==
    /\ pc = "raised"
    /\ raised.kind = "EngineException"
    /\ call.tmpdir # 0
    /\ call.tmpdir \notin scratch

BelowMinimum == {V1_1, V1_2rc1}

\* C7: with an installed version below 1.2 every call ends in ResourceError,
\* having created no scratch directory and run no engine subprocess (the
\* --version query that resolves the version is counted in call.probes).
UnsupportedVersionFailsEarly ==
    (installed \in BelowMinimum /\ calls > 0) =>
        /\ pc = "raised"
        /\ raised.kind = "ResourceError"
        /\ call.tmpdir = 0
        /\ call.executes = 0
        /\ scratch = {}

UnsupportedVersionRaised ==
    /\ installed = V1_1
    /\ pc = "raised"
    /\ raised.kind = "ResourceError"
    /\ calls = 2

BelowModern == {V1_2, V1_3_2, V1_4a2_dev159}
AtLeastModern == {V1_4a2_dev160, V1_4a2_dev200, V1_4}

\* C8: a dispatched call uses the legacy file protocol below 1.4a2.dev160, and
\* from that version on the modern file protocol, or the embedded call when
\* extras asks for it; the file protocols run one subprocess with their
\* arguments and the embedded call runs none.
ProtocolFollowsVersionAndExtras ==
    Dispatched =>
        /\ installed \in BelowModern \cup AtLeastModern
        /\ installed \in BelowModern =>
              /\ call.protocol = "legacy"
              /\ call.executes = 1
              /\ call.argv = <<"psi4", "--scratch", call.tmpdir, "--json", "data.json">>
        /\ (installed \in AtLeastModern /\ ~input_model.psiapi) =>
              /\ call.protocol = "modern"
              /\ call.executes = 1
              /\ call.argv = <<"psi4", "--scratch", call.tmpdir,
                               "--nthread", config.ncores,
                               "--memory", [GB |-> config.memory],
                               "--qcschema", "data.msgpack">>
        /\ (installed \in AtLeastModern /\ input_model.psiapi) =>
              /\ call.protocol = "embedded"
              /\ call.executes = 0
              /\ call.argv = <<>>

EmbeddedRequestedBelowModern ==
    /\ pc = "running"
    /\ installed = V1_4a2_dev159
    /\ input_model.psiapi
    /\ call.protocol = "legacy"

\* C9 as stated: a returned result's provenance memory and thread count equal
\* the memory and core count of the call's TaskConfig.
ProvenanceEqualsConfig ==
    pc = "returned" =>
        result.memory = config.memory /\ result.nthreads = config.ncores

\* C9 amended: a returned result's provenance thread count equals the
\* TaskConfig core count and its provenance memory is the TaskConfig memory
\* rounded to three decimals (the nearest multiple of 0.001), whatever the raw
\* output carried.
ProvenanceIsRoundedConfig ==
    pc = "returned" =>
        /\ result.nthreads = config.ncores
        /\ result.memory % 10 = 0
        /\ result.memory - config.memory \in -5..5

ProvenanceRounded ==
    /\ pc = "returned"
    /\ config.memory = 12346
    /\ result.memory = 12350
    /\ result.nthreads = 2

\* C10: when an embedded call has ended, by a result, an engine-reported
\* failure or an exception of the invocation, the engine's default working
\* path is the one it had before the call.
DefaultPathRestored ==
    (Ended /\ call.protocol = "embedded") => default_path = call.orig_scr

====
